---- MODULE Spec2Model ----
(***************************************************************************)
(* A model of the acm-client core: the snapshot store (lib/snapshot.js),   *)
(* the server list manager (lib/server_list_mgr.js), the unit client       *)
(* DiamondEnv (lib/diamond_env.js) and the facade (lib/client.js).         *)
(*                                                                         *)
(* Nine specifications share the variables:                                *)
(*   SpecMgr   the server list manager: getOne, the refresh loop, close;   *)
(*   SpecGet   getConfig / _request of the unit clients of two units;      *)
(*   SpecSub   the subscription and long-polling engine of one unit client *)
(*             on one key, requests failing, contents changing, close;     *)
(*   SpecCalm  the same engine on two keys, the server contents constant   *)
(*             and every request succeeding, the deliveries counted;       *)
(*   SpecFan   publishToAllUnit / removeToAllUnit of the facade;           *)
(*   SpecLive  the long-polling loop and the refresh loop, fairly          *)
(*             scheduled, with close;                                      *)
(*   SpecBatch one _syncConfigs of the loop over two keys;                 *)
(*   SpecRefresh the refresh loop, fairly scheduled, snapshot writes        *)
(*             failing;                                                    *)
(*   SpecFacade getCurrentUnit, the registry of unit clients and close.    *)
(* An action of one specification leaves the other components unchanged.   *)
(***************************************************************************)
EXTENDS Integers, Sequences, FiniteSets, TLC

VARIABLES
  snapshot,           \* Snapshot: the files under <cacheDir>/snapshot, key -> content
  _isClosed,          \* ServerListManager._isClosed
  _isSync,            \* ServerListManager._isSync
  _serverListCache,   \* ServerListManager._serverListCache: unit -> pool | null
  syncPc,             \* position of the _syncServers coroutine
  syncUnits,          \* units whose refresh fetch is still in flight
  getOneCalls,        \* unit -> number of getOne calls waiting for their first-miss fetch
  rrPrev,             \* history: per unit, what the previous getOne returned
  _currentServer,     \* DiamondEnv._currentServer of the unit client of each unit
  reqs,               \* per unit client, the hosts of the getConfig requests in flight
  _isClose,           \* DiamondEnv._isClose of the unit client of SubUnit
  _isLongPulling,     \* DiamondEnv._isLongPulling
  _subscriptions,     \* DiamondEnv._subscriptions: key -> [md5, content]
  listeners,          \* the listeners registered on the emitter, per key
  serverVal,          \* the content the server holds, per key
  inits,              \* the initial syncs started by subscribe, request in flight
  loop,               \* position of the long-polling coroutine and its requests
  immediates,         \* the emissions queued with setImmediate, oldest first
  ticks,              \* the callbacks queued with process.nextTick, oldest first
  hist,               \* history: per key and listener, deliveries since its subscribe
  fan,                \* DiamondClient: the publishToAllUnit / removeToAllUnit call under way
  CURRENT_UNIT,       \* ServerListManager[CURRENT_UNIT]: the memoized unit name
  envReqs,            \* the GET /env requests of getCurrentUnit: in flight, sent, void
  _clients,           \* DiamondClient._clients: unit -> the DiamondEnv instance
  envs,               \* the DiamondEnv instances made by _getClient, and the open ones
  last                \* history: the step just taken and what it observed

mgrVars == <<_isClosed, _isSync, _serverListCache, syncPc, syncUnits, getOneCalls, rrPrev>>
getVars == <<_currentServer, reqs>>
facVars == <<CURRENT_UNIT, envReqs, _clients, envs>>
subVars == <<_isClose, _isLongPulling, _subscriptions, listeners, serverVal, inits, loop,
             immediates, ticks, hist, fan, facVars>>
nonMgrVars == <<getVars, subVars>>
vars == <<snapshot, mgrVars, getVars, subVars, last>>

(***************************************************************************)
(* Values                                                                  *)
(***************************************************************************)
NULL == "null"
NullData == [null |-> TRUE]
\* A file is <<kind, text>>; NoFile is what Snapshot.get returns for none (null).
NoFile == <<"null", "">>

Units == {"u1", "u2"}

\* Bound: getOne calls of one unit that may wait for a first-miss fetch at once.
MaxGetOne == 1

\* Discovery bodies: text lines, some blank or whitespace only.
Bodies == { <<" ">>, <<"h1">>, <<"h1", "", "h2">> }

\* A transport error is thrown into the same catch as a status other than 200.
DiscoveryResponses ==
  {[status |-> 200, data |-> b] : b \in Bodies} \cup {[status |-> 500, data |-> <<>>]}

trim(s) == IF s = " " THEN "" ELSE s

ParseHostLines(data) ==
  SelectSeq([i \in 1..Len(data) |-> trim(data[i])], LAMBDA h : h # "")

JSONstringify(hosts) == <<"json", hosts>>
CorruptFile == <<"raw", "[\"h1\"">>
EmptyFile == <<"raw", "">>
JSONparses(file) == file[1] = "json"
JSONparse(file) == file[2]

ServerListFiles ==
  {JSONstringify(<<"h1">>), JSONstringify(<<"h1", "h2">>), CorruptFile}

\* The unit client whose subscriptions are modelled, its dataIds (the group is
\* fixed, so a dataId stands for the key dataId@group@unit) and the listeners.
SubUnit == "u1"
Keys == {"d1", "d2"}
Listeners == {"L1", "L2"}
Contents == {"v1", "v2"}
\* The listeners that subscribe to each key.
Subscribers(key) == IF key = "d1" THEN Listeners ELSE {"L1"}
\* The keys subscribed while the server contents change and requests fail.
HotKeys == {"d1"}

\* Bound: initial syncs in flight at once.
MaxInits == 1
\* Bound: emissions queued with setImmediate and not yet run.
MaxPending == 2
\* Bound: callbacks queued with process.nextTick and not yet run.
MaxTicks == 1

LoopOff == [pc |-> "off", probed |-> <<>>, gets |-> <<>>]
NoHist == [got |-> 0, how |-> "none"]
NoEnvReqs == [flying |-> 0, sent |-> 0, void |-> 0]
NoEnvs == [made |-> 0, open |-> {}]
FanIdle == [pc |-> "idle", units |-> {}, op |-> <<>>, ret |-> "none", seen |-> {}]

\* DiamondEnv constructor (diamond_env.js lines 41-44): nothing subscribed.
InitSubIdle ==
  /\ _isClose = FALSE
  /\ _isLongPulling = FALSE
  /\ _subscriptions = <<>>
  /\ listeners = [k \in Keys |-> {}]
  /\ serverVal = [k \in Keys |-> "v1"]
  /\ inits = <<>>
  /\ loop = LoopOff
  /\ immediates = <<>>
  /\ ticks = <<>>
  /\ hist = [k \in Keys |-> [l \in Listeners |-> NoHist]]
  /\ fan = FanIdle
  /\ CURRENT_UNIT = NULL
  /\ envReqs = NoEnvReqs
  /\ _clients = <<>>
  /\ envs = NoEnvs

(***************************************************************************)
(* Snapshot (lib/snapshot.js). The file system calls succeed: the catch     *)
(* branches, which only emit Snapshot*Error, are not taken.                *)
(***************************************************************************)
SnapshotGet(snap, key) ==
  IF key \in DOMAIN snap THEN snap[key] ELSE NoFile

SnapshotSave(snap, key, value) ==
  [k \in DOMAIN snap \cup {key} |-> IF k = key THEN value ELSE snap[k]]

SnapshotDelete(snap, key) ==
  [k \in DOMAIN snap \ {key} |-> snap[k]]

Truthy(file) == file # NoFile /\ file # EmptyFile

(***************************************************************************)
(* ServerListManager (lib/server_list_mgr.js)                              *)
(***************************************************************************)
MgrFormatKey(unit) == <<"server_list", unit>>

\* _request: a status other than 200, or a transport error, throws.
MgrRequestOk(resp) == resp.status = 200

\* _fetchServerList lines 161-166: the hosts a discovery answer gives.
WireHosts(resp) == IF MgrRequestOk(resp) THEN ParseHostLines(resp.data) ELSE <<>>

FetchHostsMut(snap, unit, resp) ==
  [hosts |-> WireHosts(resp), snap |-> snap, errs |-> {}, write |-> FALSE]

\* _fetchServerList up to line 190: the hosts obtained from the wire or, failing
\* that, from the snapshot; the snapshot after it; the errors emitted.
FetchHosts(snap, unit, resp) ==
  LET key == MgrFormatKey(unit)
      wire == IF MgrRequestOk(resp) THEN ParseHostLines(resp.data) ELSE <<>>
      data == SnapshotGet(snap, key)
      httpErr == IF ~MgrRequestOk(resp) THEN "DiamondServerResponseError"
                 ELSE "DiamondServerHostEmptyError"
  IN  IF MgrRequestOk(resp) /\ Len(wire) > 0
        THEN [hosts |-> wire,
              snap |-> SnapshotSave(snap, key, JSONstringify(wire)),
              errs |-> {}, write |-> TRUE]
      ELSE IF ~Truthy(data)
        THEN [hosts |-> <<>>, snap |-> snap,
              errs |-> {httpErr}, write |-> FALSE]
      ELSE IF JSONparses(data)
        THEN [hosts |-> JSONparse(data), snap |-> snap, errs |-> {httpErr},
              write |-> FALSE]
      ELSE [hosts |-> <<>>, snap |-> SnapshotDelete(snap, key),
            errs |-> {httpErr, "ServerListSnapShotJSONParseError"},
            write |-> TRUE]

\* _fetchServerList lines 191-201: the cache entry stored, index = random(length).
StoreServerData(cache, unit, hosts, rnd) ==
  [u \in DOMAIN cache \cup {unit} |->
     IF u # unit THEN cache[u]
     ELSE IF Len(hosts) = 0 THEN NullData
     ELSE [hosts |-> hosts, index |-> rnd]]

RandomRange(hosts) == IF Len(hosts) = 0 THEN {0} ELSE 0..(Len(hosts) - 1)

CacheHit(cache, unit) == unit \in DOMAIN cache /\ cache[unit] # NullData

\* getOne lines 120-125: the host chosen and the index advanced.
ChoosedMut(serverData) == serverData.hosts[1]

Choosed(serverData) == serverData.hosts[serverData.index + 1]

AdvanceIndexMut(serverData) ==
  [serverData EXCEPT !.index = serverData.index]

AdvanceIndex(serverData) ==
  [serverData EXCEPT !.index =
     IF serverData.index + 1 >= Len(serverData.hosts) THEN 0 ELSE serverData.index + 1]

\* History of getOne for the round-robin claims: the pool before the call.
RRNote(rr, unit, serverData) ==
  [rr EXCEPT ![unit] = [idx |-> serverData.index, refetched |-> FALSE]]

RRNone == [idx |-> -1, refetched |-> FALSE]

\* A completed (re)fetch of a unit's list: a changed list starts a new history.
RRFetched(rr, cache, unit, hosts) ==
  [rr EXCEPT ![unit] = IF CacheHit(cache, unit) /\ cache[unit].hosts = hosts
                              /\ rr[unit].idx >= 0
                         THEN [rr[unit] EXCEPT !.refetched = TRUE]
                         ELSE RRNone]

InitMgr ==
  /\ _isClosed = FALSE
  /\ _isSync = TRUE
  /\ _serverListCache = <<>>
  /\ syncPc = "sleep"
  /\ syncUnits = {}
  /\ getOneCalls = [u \in Units |-> 0]
  /\ rrPrev = [u \in Units |-> RRNone]

\* getOne(unit) with a pool in the cache: no suspension point.
GetOneHit(unit) ==
  /\ CacheHit(_serverListCache, unit)
  /\ LET serverData == _serverListCache[unit]
     IN  /\ _serverListCache' = [_serverListCache EXCEPT ![unit] = AdvanceIndex(serverData)]
         /\ rrPrev' = RRNote(rrPrev, unit, serverData)
         /\ last' = [op |-> "getOne", unit |-> unit, host |-> Choosed(serverData),
                     at |-> serverData.index, hosts |-> serverData.hosts,
                     prev |-> rrPrev[unit], http |-> FALSE, write |-> FALSE,
                     errs |-> {}, fetched |-> FALSE]
  /\ UNCHANGED <<snapshot, _isClosed, _isSync, syncPc, syncUnits, getOneCalls>>
  /\ UNCHANGED nonMgrVars

\* getOne(unit) without a pool: the discovery request is sent (line 114).
GetOneMiss(unit) ==
  /\ ~CacheHit(_serverListCache, unit)
  /\ getOneCalls[unit] < MaxGetOne
  /\ getOneCalls' = [getOneCalls EXCEPT ![unit] = @ + 1]
  /\ last' = [op |-> "getOneMiss", unit |-> unit, http |-> TRUE, write |-> FALSE,
              errs |-> {}]
  /\ UNCHANGED <<snapshot, _isClosed, _isSync, _serverListCache, syncPc, syncUnits, rrPrev>>
  /\ UNCHANGED nonMgrVars

\* The first-miss fetch answers: _fetchServerList finishes and getOne goes on
\* with the pool it got (lines 117-125).
GetOneFetched(unit) ==
  /\ getOneCalls[unit] > 0
  /\ \E resp \in DiscoveryResponses :
       LET f == FetchHosts(snapshot, unit, resp)
       IN  \E rnd \in RandomRange(f.hosts) :
             LET cache == StoreServerData(_serverListCache, unit, f.hosts, rnd)
                 rr == RRFetched(rrPrev, _serverListCache, unit, f.hosts)
             IN  /\ snapshot' = f.snap
                 /\ IF cache[unit] = NullData
                      THEN /\ _serverListCache' = cache
                           /\ rrPrev' = rr
                           /\ last' = [op |-> "getOneNull", unit |-> unit, host |-> NULL,
                                       http |-> FALSE, write |-> f.write, errs |-> f.errs,
                                       fetched |-> TRUE, wire |-> WireHosts(resp),
                                       file |-> SnapshotGet(snapshot, MgrFormatKey(unit))]
                      ELSE /\ _serverListCache' =
                                [cache EXCEPT ![unit] = AdvanceIndex(cache[unit])]
                           /\ rrPrev' = RRNote(rr, unit, cache[unit])
                           /\ last' = [op |-> "getOne", unit |-> unit,
                                       host |-> Choosed(cache[unit]),
                                       at |-> cache[unit].index, hosts |-> cache[unit].hosts,
                                       prev |-> rr[unit], http |-> FALSE,
                                       write |-> f.write, errs |-> f.errs,
                                       fetched |-> TRUE, wire |-> WireHosts(resp),
                                       file |-> SnapshotGet(snapshot, MgrFormatKey(unit))]
  /\ getOneCalls' = [getOneCalls EXCEPT ![unit] = @ - 1]
  /\ UNCHANGED <<_isClosed, _isSync, syncPc, syncUnits>>
  /\ UNCHANGED nonMgrVars

\* The head of the while loop of _syncServers (line 138), reached when a round ends.
SyncLoopHeadMut(closed) == "done"

SyncLoopHead(closed) == IF closed THEN "done" ELSE "sleep"

\* The refresh sleep ends (line 139): every key of the cache is fetched again.
SyncWake ==
  /\ syncPc = "sleep"
  /\ LET units == DOMAIN _serverListCache
     IN  /\ syncUnits' = units
         /\ syncPc' = IF units = {} THEN SyncLoopHead(_isClosed) ELSE "fetch"
         /\ _isSync' = IF units = {} /\ _isClosed THEN FALSE ELSE _isSync
         /\ last' = [op |-> "syncWake", units |-> units, http |-> units # {},
                     write |-> FALSE, errs |-> {}]
  /\ UNCHANGED <<snapshot, _isClosed, _serverListCache, getOneCalls, rrPrev>>
  /\ UNCHANGED nonMgrVars

\* One fetch of the refresh round answers; the round ends with the last one.
SyncFetched(unit) ==
  /\ syncPc = "fetch"
  /\ unit \in syncUnits
  /\ \E resp \in DiscoveryResponses :
       LET f == FetchHosts(snapshot, unit, resp)
       IN  \E rnd \in RandomRange(f.hosts) :
             /\ snapshot' = f.snap
             /\ _serverListCache' = StoreServerData(_serverListCache, unit, f.hosts, rnd)
             /\ rrPrev' = RRFetched(rrPrev, _serverListCache, unit, f.hosts)
             /\ last' = [op |-> "syncFetched", unit |-> unit, http |-> FALSE,
                         write |-> f.write, errs |-> f.errs,
                         warm |-> CacheHit(_serverListCache, unit),
                         fetched |-> TRUE, wire |-> WireHosts(resp),
                         file |-> SnapshotGet(snapshot, MgrFormatKey(unit))]
  /\ syncUnits' = syncUnits \ {unit}
  /\ syncPc' = IF syncUnits' = {} THEN SyncLoopHead(_isClosed) ELSE "fetch"
  /\ _isSync' = IF syncUnits' = {} /\ _isClosed THEN FALSE ELSE _isSync
  /\ UNCHANGED <<_isClosed, getOneCalls>>
  /\ UNCHANGED nonMgrVars

\* close(): only the flag.
MgrClose ==
  /\ ~_isClosed
  /\ _isClosed' = TRUE
  /\ last' = [op |-> "mgrClose", http |-> FALSE, write |-> FALSE, errs |-> {}]
  /\ UNCHANGED <<snapshot, _isSync, _serverListCache, syncPc, syncUnits, getOneCalls, rrPrev>>
  /\ UNCHANGED nonMgrVars

InitSnapshotMgr ==
  \E files \in [Units -> ServerListFiles \cup {NoFile}] :
    snapshot = [k \in {MgrFormatKey(u) : u \in {x \in Units : files[x] # NoFile}} |->
                  files[k[2]]]

InitLast == last = [op |-> "init", http |-> FALSE, write |-> FALSE, errs |-> {}]

InitGetIdle ==
  /\ _currentServer = [u \in Units |-> NULL]
  /\ reqs = [u \in Units |-> <<>>]

InitM == InitMgr /\ InitSnapshotMgr /\ InitGetIdle /\ InitSubIdle /\ InitLast

NextMgr ==
  \/ \E u \in Units : GetOneHit(u)
  \/ \E u \in Units : GetOneMiss(u)
  \/ \E u \in Units : GetOneFetched(u)
  \/ SyncWake
  \/ \E u \in Units : SyncFetched(u)
  \/ MgrClose

SpecMgr == InitM /\ [][NextMgr]_vars

(***************************************************************************)
(* The refresh loop with a file system that may fail. snapshot.save catches *)
(* a failed mkdirp or writeFile, emits SnapshotWriteError and returns       *)
(* (snapshot.js lines 38-51): _fetchServerList goes on and stores the pool, *)
(* and the snapshot file is as it was. The loop runs under weak fairness:   *)
(* the sleep timer fires and every request is answered or times out.        *)
(* getOne calls are the first-miss ones, which fetch; a call that finds a   *)
(* pool only advances its index (see SpecMgr).                              *)
(***************************************************************************)
\* One fetch of the refresh round answers with a non-empty list and the
\* snapshot write fails.
SyncFetchedUnsaved(unit) ==
  /\ syncPc = "fetch"
  /\ unit \in syncUnits
  /\ \E resp \in DiscoveryResponses :
       /\ Len(WireHosts(resp)) > 0
       /\ \E rnd \in RandomRange(WireHosts(resp)) :
            /\ _serverListCache' =
                 StoreServerData(_serverListCache, unit, WireHosts(resp), rnd)
            /\ rrPrev' = RRFetched(rrPrev, _serverListCache, unit, WireHosts(resp))
            /\ last' = [op |-> "syncFetched", unit |-> unit, http |-> FALSE,
                        write |-> TRUE, errs |-> {"SnapshotWriteError"},
                        warm |-> CacheHit(_serverListCache, unit),
                        fetched |-> TRUE, wire |-> WireHosts(resp),
                        file |-> SnapshotGet(snapshot, MgrFormatKey(unit))]
  /\ syncUnits' = syncUnits \ {unit}
  /\ syncPc' = IF syncUnits' = {} THEN SyncLoopHead(_isClosed) ELSE "fetch"
  /\ _isSync' = IF syncUnits' = {} /\ _isClosed THEN FALSE ELSE _isSync
  /\ UNCHANGED <<snapshot, _isClosed, getOneCalls>>
  /\ UNCHANGED nonMgrVars

NextRefresh ==
  \/ \E u \in Units : GetOneMiss(u)
  \/ \E u \in Units : GetOneFetched(u)
  \/ SyncWake
  \/ \E u \in Units : SyncFetched(u)
  \/ \E u \in Units : SyncFetchedUnsaved(u)
  \/ MgrClose

FairRefresh ==
  /\ WF_vars(SyncWake)
  /\ \A u \in Units : WF_vars(SyncFetched(u))

SpecRefresh == InitM /\ [][NextRefresh]_vars /\ FairRefresh

(***************************************************************************)
(* C9: round-robin order of getOne                                         *)
(***************************************************************************)
\* C9 as stated: successive getOne calls of a unit whose host list stays the same
\* return the hosts in cyclic order (each call returns the successor of the
\* position the previous call returned), whatever manager steps lie between.
C9_RoundRobinAcrossSteps ==
  (last.op = "getOne" /\ last.prev.idx >= 0)
    => last.at = (last.prev.idx + 1) % Len(last.hosts)

\* C9 amended: getOne returns the host at the pool's current index and advances
\* the index modulo the list length; successive calls return successive list
\* positions in cyclic order provided no fetch of that unit's list (a refresh
\* tick, a first-miss fetch) completed between them.
C9_RoundRobin ==
  last.op = "getOne" =>
    /\ last.host = last.hosts[last.at + 1]
    /\ _serverListCache[last.unit].index = (last.at + 1) % Len(last.hosts)
    /\ (last.prev.idx >= 0 /\ ~last.prev.refetched)
         => last.at = (last.prev.idx + 1) % Len(last.hosts)

\* Two successive calls on a list of two hosts wrapping around from the last
\* position to the first.
C9_Witness ==
  /\ last.op = "getOne"
  /\ Len(last.hosts) = 2
  /\ last.prev.idx = 1
  /\ ~last.prev.refetched
  /\ last.at = 0

(***************************************************************************)
(* C5: no work after close (server list manager)                           *)
(***************************************************************************)
\* C5 as stated, for the refresh loop: once close() has set _isClosed, the
\* refresh loop sends no discovery request and writes no snapshot file, also
\* when its sleep was outstanding at the moment of close.
C5_NoWorkAfterClose ==
  (_isClosed /\ last.op \in {"syncWake", "syncFetched"})
    => (~last.http /\ ~last.write)

(***************************************************************************)
(* DiamondEnv: _request and getConfig (lib/diamond_env.js)                 *)
(***************************************************************************)
Tenant == "t1"
Group == "g"

\* Bound: getConfig requests of one unit client in flight at once.
MaxReqs == 1

\* A transport error (status -1 here) is thrown by the http client itself.
ConfigResponses ==
  { [status |-> 200, data |-> "v1"], [status |-> 200, data |-> ""],
    [status |-> 404, data |-> ""], [status |-> 409, data |-> ""],
    [status |-> 500, data |-> ""], [status |-> -1, data |-> ""] }

_getSnapshotKey(unit, dataId, group) == <<"config", unit, Tenant, group, dataId>>

\* Snapshot.save line 42: value = value || ''.
FileOf(value) == <<"raw", IF value = NULL THEN "" ELSE value>>

\* getOne as the caller sees it, a first-miss fetch answered with resp and the
\* random index rnd drawn.
GetOne(cache, snap, unit, resp, rnd) ==
  IF CacheHit(cache, unit)
    THEN [cache |-> [cache EXCEPT ![unit] = AdvanceIndex(cache[unit])], snap |-> snap,
          host |-> Choosed(cache[unit]), errs |-> {}, http |-> FALSE, write |-> FALSE]
    ELSE LET f == FetchHosts(snap, unit, resp)
             c == StoreServerData(cache, unit, f.hosts, rnd)
         IN  IF c[unit] = NullData
               THEN [cache |-> c, snap |-> f.snap, host |-> NULL, errs |-> f.errs,
                     http |-> TRUE, write |-> f.write]
               ELSE [cache |-> [c EXCEPT ![unit] = AdvanceIndex(c[unit])],
                     snap |-> f.snap, host |-> Choosed(c[unit]), errs |-> f.errs,
                     http |-> TRUE, write |-> f.write]

\* The answers and random draws a getOne call can meet.
GetOneInputs(cache, snap, unit) ==
  IF CacheHit(cache, unit)
    THEN {<<[status |-> 500, data |-> <<>>], 0>>}
    ELSE UNION {{<<r, n>> : n \in RandomRange(FetchHosts(snap, unit, r).hosts)} :
                  r \in DiscoveryResponses}

\* _request lines 232-246: what a response becomes.
RequestOutcomeMut(resp) ==
  CASE resp.status = 200 -> [ok |-> TRUE, value |-> resp.data, err |-> NULL]
    [] resp.status = 409 -> [ok |-> FALSE, value |-> NULL, err |-> "DiamondServerConflictError"]
    [] resp.status = -1 -> [ok |-> FALSE, value |-> NULL, err |-> "ResponseTimeoutError"]
    [] OTHER -> [ok |-> FALSE, value |-> NULL, err |-> "DiamondServerResponseError"]

RequestOutcome(resp) ==
  CASE resp.status = 200 -> [ok |-> TRUE, value |-> resp.data, err |-> NULL]
    [] resp.status = 404 -> [ok |-> TRUE, value |-> NULL, err |-> NULL]
    [] resp.status = 409 -> [ok |-> FALSE, value |-> NULL, err |-> "DiamondServerConflictError"]
    [] resp.status = -1 -> [ok |-> FALSE, value |-> NULL, err |-> "ResponseTimeoutError"]
    [] OTHER -> [ok |-> FALSE, value |-> NULL, err |-> "DiamondServerResponseError"]

\* getConfig lines 404-413, once _request has returned out.value or thrown out.err.
GetConfigEnd(snap, key, out) ==
  IF out.ok
    THEN [snap |-> SnapshotSave(snap, key, FileOf(out.value)), ret |-> out.value,
          thrown |-> NULL, errs |-> {}, write |-> TRUE]
    ELSE LET cache == SnapshotGet(snap, key)
         IN  IF Truthy(cache)
               THEN [snap |-> snap, ret |-> cache[2], thrown |-> NULL,
                     errs |-> {out.err}, write |-> FALSE]
               ELSE [snap |-> snap, ret |-> NULL, thrown |-> out.err,
                     errs |-> {}, write |-> FALSE]

Unavailable == [ok |-> FALSE, value |-> NULL, err |-> "DiamondServerUnavailableError"]

\* getConfig is called and _request sends the request to _currentServer, selected
\* first when unset (lines 182-184, 218).
GetConfigSend(unit, dataId) ==
  /\ Len(reqs[unit]) < MaxReqs
  /\ IF _currentServer[unit] # NULL
       THEN /\ reqs' = [reqs EXCEPT ![unit] = Append(@, _currentServer[unit])]
            /\ last' = [op |-> "send", unit |-> unit, host |-> _currentServer[unit],
                        http |-> TRUE, write |-> FALSE, errs |-> {}]
            /\ UNCHANGED <<snapshot, _serverListCache, _currentServer>>
       ELSE \E in \in GetOneInputs(_serverListCache, snapshot, unit) :
              LET g == GetOne(_serverListCache, snapshot, unit, in[1], in[2])
              IN  /\ g.host # NULL
                  /\ _currentServer' = [_currentServer EXCEPT ![unit] = g.host]
                  /\ _serverListCache' = g.cache
                  /\ snapshot' = g.snap
                  /\ reqs' = [reqs EXCEPT ![unit] = Append(@, g.host)]
                  /\ last' = [op |-> "send", unit |-> unit, host |-> g.host,
                              http |-> TRUE, write |-> g.write, errs |-> g.errs]
  /\ UNCHANGED <<_isClosed, _isSync, syncPc, syncUnits, getOneCalls, rrPrev>>
  /\ UNCHANGED subVars

\* getConfig is called and _updateCurrentServer finds no host: _request throws
\* before any request is sent, and getConfig falls back to the snapshot.
GetConfigUnavailable(unit, dataId) ==
  /\ _currentServer[unit] = NULL
  /\ \E in \in GetOneInputs(_serverListCache, snapshot, unit) :
       LET g == GetOne(_serverListCache, snapshot, unit, in[1], in[2])
           key == _getSnapshotKey(unit, dataId, Group)
           e == GetConfigEnd(g.snap, key, Unavailable)
       IN  /\ g.host = NULL
           /\ _serverListCache' = g.cache
           /\ snapshot' = e.snap
           /\ last' = [op |-> "getConfig", unit |-> unit, status |-> 0,
                       before |-> SnapshotGet(snapshot, key),
                       hostBefore |-> _currentServer[unit], orig |-> Unavailable.err,
                       raised |-> Unavailable.err, reselected |-> TRUE,
                       ret |-> e.ret, thrown |-> e.thrown,
                       http |-> g.http, write |-> g.write \/ e.write,
                       errs |-> g.errs \cup e.errs]
  /\ UNCHANGED <<_currentServer, reqs>>
  /\ UNCHANGED <<_isClosed, _isSync, syncPc, syncUnits, getOneCalls, rrPrev>>
  /\ UNCHANGED subVars

Remove(seq, i) == [j \in 1..(Len(seq) - 1) |-> IF j < i THEN seq[j] ELSE seq[j + 1]]

\* The response of request i of a unit client arrives: _request lines 229-253 and
\* the rest of getConfig.
GetConfigResponse(unit, dataId, i) ==
  /\ i \in 1..Len(reqs[unit])
  /\ \E resp \in ConfigResponses :
       LET out == RequestOutcome(resp)
           key == _getSnapshotKey(unit, dataId, Group)
       IN  IF out.ok
             THEN LET e == GetConfigEnd(snapshot, key, out)
                  IN  /\ snapshot' = e.snap
                      /\ last' = [op |-> "getConfig", unit |-> unit, status |-> resp.status,
                                  before |-> SnapshotGet(snapshot, key),
                                  hostBefore |-> _currentServer[unit], orig |-> NULL,
                                  raised |-> NULL, reselected |-> FALSE,
                                  ret |-> e.ret, thrown |-> e.thrown,
                                  http |-> FALSE, write |-> e.write, errs |-> e.errs]
                      /\ UNCHANGED <<_serverListCache, _currentServer>>
             ELSE \E in \in GetOneInputs(_serverListCache, snapshot, unit) :
                    LET g == GetOne(_serverListCache, snapshot, unit, in[1], in[2])
                        e == GetConfigEnd(g.snap, key,
                                          IF g.host = NULL THEN Unavailable ELSE out)
                    IN  /\ _currentServer' = [_currentServer EXCEPT ![unit] = g.host]
                        /\ _serverListCache' = g.cache
                        /\ snapshot' = e.snap
                        /\ last' = [op |-> "getConfig", unit |-> unit,
                                    status |-> resp.status,
                                    before |-> SnapshotGet(snapshot, key),
                                    hostBefore |-> _currentServer[unit], orig |-> out.err,
                                    raised |-> (IF g.host = NULL THEN Unavailable
                                                ELSE out).err,
                                    reselected |-> TRUE, ret |-> e.ret, thrown |-> e.thrown,
                                    http |-> g.http, write |-> g.write \/ e.write,
                                    errs |-> g.errs \cup e.errs]
  /\ reqs' = [reqs EXCEPT ![unit] = Remove(@, i)]
  /\ UNCHANGED <<_isClosed, _isSync, syncPc, syncUnits, getOneCalls, rrPrev>>
  /\ UNCHANGED subVars

GetDataIds == {"d1"}

\* Config snapshots left by an earlier run of the process.
InitSnapshotGet ==
  \E files \in [Units -> {NoFile, <<"raw", "v0">>}] :
    snapshot = [k \in {_getSnapshotKey(u, "d1", Group) :
                         u \in {x \in Units : files[x] # NoFile}} |-> files[k[2]]]

InitG == InitMgr /\ InitSnapshotGet /\ InitGetIdle /\ InitSubIdle /\ InitLast

NextGet ==
  \/ \E u \in Units, d \in GetDataIds : GetConfigSend(u, d)
  \/ \E u \in Units, d \in GetDataIds : GetConfigUnavailable(u, d)
  \/ \E u \in Units, d \in GetDataIds, i \in 1..MaxReqs : GetConfigResponse(u, d, i)

SpecGet == InitG /\ [][NextGet]_vars

HttpFailed(status) == status \in {0, 409, 500, -1}

(***************************************************************************)
(* C6, C7, C8: getConfig                                                   *)
(***************************************************************************)
\* C6 as stated: a getConfig whose request fails returns the snapshot entry when
\* one exists, whatever its content (an empty one included), and reports the
\* original error as an error event; it fails only when the request fails and no
\* entry exists.
C6_SnapshotFallback ==
  last.op = "getConfig" =>
    /\ (HttpFailed(last.status) /\ last.before # NoFile)
         => (last.ret = last.before[2] /\ last.thrown = NULL /\ last.orig \in last.errs)
    /\ last.thrown # NULL => (HttpFailed(last.status) /\ last.before = NoFile)

C8_NoSnapshotWriteOn404 ==
  (last.op = "getConfig" /\ last.status = 404) =>
    /\ ~last.write
    /\ SnapshotGet(snapshot, _getSnapshotKey(last.unit, "d1", Group)) = last.before

(***************************************************************************)
(* DiamondEnv: subscribe, _syncConfigs, long polling (lib/diamond_env.js)  *)
(*                                                                         *)
(* One unit client, its pool warm and its _currentServer selected. A       *)
(* response carries the content the server holds when it arrives. The      *)
(* callbacks of process.nextTick run before any I/O continuation or        *)
(* setImmediate callback: while one is queued only synchronous user calls  *)
(* can come first. Error events are recorded in last.errs.                 *)
(***************************************************************************)
\* utils.getMD5String: the hex MD5 of the content, distinct for distinct contents.
getMD5String(content) == "md5:" \o content

NewItem == [md5 |-> NULL, content |-> NULL]

ItemOf(subs, key) == IF key \in DOMAIN subs THEN subs[key] ELSE NewItem

\* subscribe line 115: only a key without a Subscription starts an initial sync.
StartsInitialSyncMut(subs, key) == TRUE

StartsInitialSync(subs, key) == key \notin DOMAIN subs

\* _syncConfigs line 161: the debounce.
AcceptsMut(item, md5) == TRUE

Accepts(item, md5) == item.md5 # md5

\* _syncConfigs lines 162-163: the item takes the new md5 and content.
UpdatedMut(item, md5, content) == [md5 |-> md5, content |-> item.content]

Updated(item, md5, content) == [md5 |-> md5, content |-> content]

\* _syncConfigs lines 141-167 over the results of the list, in list order;
\* tagged holds the dataIds the DiamondSyncConfigError events carry.
SyncResultsMut(subs, results) ==
  [subs |-> [k \in DOMAIN subs |->
               IF \E i \in DOMAIN results : results[i].key = k /\ ~results[i].ok
                 THEN NewItem ELSE subs[k]],
   emits |-> <<>>, errs |-> {}, tagged |-> {}]

RECURSIVE SyncResults(_, _)
SyncResults(subs, results) ==
  IF results = <<>>
    THEN [subs |-> subs, emits |-> <<>>, errs |-> {}, tagged |-> {}]
    ELSE LET r == Head(results)
             one == IF r.key \notin DOMAIN subs
                      THEN [subs |-> subs, emits |-> <<>>, errs |-> {}, tagged |-> {}]
                    ELSE IF ~r.ok
                      THEN [subs |-> subs, emits |-> <<>>,
                            errs |-> {"DiamondSyncConfigError"}, tagged |-> {r.key}]
                    ELSE IF Accepts(subs[r.key], getMD5String(r.value))
                      THEN [subs |-> [subs EXCEPT ![r.key] =
                                        Updated(@, getMD5String(r.value), r.value)],
                            emits |-> <<[key |-> r.key, content |-> r.value]>>,
                            errs |-> {}, tagged |-> {}]
                    ELSE [subs |-> subs, emits |-> <<>>, errs |-> {}, tagged |-> {}]
             rest == SyncResults(one.subs, Tail(results))
         IN  [subs |-> rest.subs, emits |-> one.emits \o rest.emits,
              errs |-> one.errs \cup rest.errs, tagged |-> one.tagged \cup rest.tagged]

\* What _syncConfigs met, for the history: the item before and the result.
SyncRecs(subs, results) ==
  {[key |-> results[i].key, had |-> results[i].key \in DOMAIN subs,
    before |-> ItemOf(subs, results[i].key), ok |-> results[i].ok,
    content |-> results[i].value] : i \in 1..Len(results)}

\* The head of the while loop of _startLongPulling (line 268) and, when the loop
\* goes on, _checkServerConfigInfo up to the probe request (lines 287-305); when
\* it ends, the flag is cleared (line 278).
LoopHeadMut(closed, subs) ==
  IF DOMAIN subs # {}
    THEN [lp |-> TRUE, http |-> TRUE,
          loop |-> [pc |-> "probe", probed |-> [k \in DOMAIN subs |-> subs[k].md5],
                    gets |-> <<>>]]
    ELSE [lp |-> FALSE, http |-> FALSE, loop |-> LoopOff]

LoopHeadKeepsFlagMut(closed, subs) ==
  IF ~closed /\ DOMAIN subs # {}
    THEN [lp |-> TRUE, http |-> TRUE,
          loop |-> [pc |-> "probe", probed |-> [k \in DOMAIN subs |-> subs[k].md5],
                    gets |-> <<>>]]
    ELSE [lp |-> TRUE, http |-> FALSE, loop |-> LoopOff]

LoopHead(closed, subs) ==
  IF ~closed /\ DOMAIN subs # {}
    THEN [lp |-> TRUE, http |-> TRUE,
          loop |-> [pc |-> "probe", probed |-> [k \in DOMAIN subs |-> subs[k].md5],
                    gets |-> <<>>]]
    ELSE [lp |-> FALSE, http |-> FALSE, loop |-> LoopOff]

\* _startLongPulling: the re-entrancy guard (lines 263-266), then the loop.
StartLongPullingMut(lp, closed, subs, lo) == LoopHead(closed, subs)

StartLongPulling(lp, closed, subs, lo) ==
  IF lp THEN [lp |-> lp, http |-> FALSE, loop |-> lo] ELSE LoopHead(closed, subs)

\* A getConfig request of the unit client answered with resp: _request from the
\* response on and the rest of getConfig; in[1], in[2] answer a first-miss fetch
\* of _updateCurrentServer.
GetConfigAnswer(cache, snap, cur, dataId, resp, in) ==
  LET out == RequestOutcome(resp)
      key == _getSnapshotKey(SubUnit, dataId, Group)
  IN  IF out.ok
        THEN LET e == GetConfigEnd(snap, key, out)
             IN  [snap |-> e.snap, cache |-> cache, cur |-> cur, ok |-> TRUE,
                  value |-> e.ret, errs |-> {}, write |-> e.write]
        ELSE LET g == GetOne(cache, snap, SubUnit, in[1], in[2])
                 e == GetConfigEnd(g.snap, key, IF g.host = NULL THEN Unavailable ELSE out)
             IN  [snap |-> e.snap, cache |-> g.cache, cur |-> g.host,
                  ok |-> e.thrown = NULL, value |-> e.ret,
                  errs |-> g.errs \cup e.errs, write |-> g.write \/ e.write]

ConfigResponse(ok, content) ==
  IF ok THEN [status |-> 200, data |-> content] ELSE [status |-> 500, data |-> ""]

\* The orders in which a set of at most two keys can be listed.
Orders(S) ==
  {q \in UNION {[1..n -> S] : n \in {Cardinality(S)}} : \A i, j \in DOMAIN q : i # j => q[i] # q[j]}

\* setImmediate(() => this.emit(key, content)) (line 165): the emissions of a
\* _syncConfigs call join the queue of the check phase, in order.
setImmediateMut(queue, emits) == queue

setImmediate(queue, emits) == queue \o emits

\* process.nextTick(() => listener(item.content)) (line 128).
nextTick(queue, callback) == Append(queue, callback)

subFrame ==
  UNCHANGED <<_isClosed, _isSync, syncPc, syncUnits, getOneCalls, rrPrev, reqs, fan,
              facVars>>

\* subscribe(info, listener); a listener function is registered once per key.
Subscribe(key, listener) ==
  /\ ~_isClose
  /\ listener \notin listeners[key]
  /\ listeners' = [listeners EXCEPT ![key] = @ \cup {listener}]
  /\ IF StartsInitialSync(_subscriptions, key)
       THEN /\ Len(inits) < MaxInits
            /\ _subscriptions' = [k \in DOMAIN _subscriptions \cup {key} |->
                                    IF k = key THEN NewItem ELSE _subscriptions[k]]
            /\ inits' = Append(inits, key)
            /\ ticks' = ticks
            /\ last' = [op |-> "subscribe", key |-> key, listener |-> listener,
                        existed |-> key \in DOMAIN _subscriptions, how |-> "create",
                        inflight |-> Len(inits),
                        http |-> TRUE, write |-> FALSE, errs |-> {}]
     ELSE IF _subscriptions[key].md5 # NULL
       THEN /\ Len(ticks) < MaxTicks
            /\ ticks' = nextTick(ticks, [listener |-> listener, key |-> key,
                                         content |-> _subscriptions[key].content])
            /\ last' = [op |-> "subscribe", key |-> key, listener |-> listener,
                        existed |-> TRUE, how |-> "cached", inflight |-> Len(inits),
                        http |-> FALSE, write |-> FALSE, errs |-> {}]
            /\ UNCHANGED <<_subscriptions, inits>>
     ELSE /\ last' = [op |-> "subscribe", key |-> key, listener |-> listener,
                      existed |-> TRUE, how |-> "join", inflight |-> Len(inits),
                      http |-> FALSE, write |-> FALSE, errs |-> {}]
          /\ UNCHANGED <<_subscriptions, inits, ticks>>
  /\ UNCHANGED <<snapshot, _serverListCache, _currentServer, _isClose, _isLongPulling,
                 serverVal, loop, immediates>>
  /\ subFrame

\* unSubscribe lines 359-361: the Subscription goes with its last listener.
Unsubscribed(subs, ls, key) ==
  IF ls[key] = {} THEN [k \in DOMAIN subs \ {key} |-> subs[k]] ELSE subs

\* unSubscribe(info, listener) of a registered listener.
UnSubscribe(key, listener) ==
  /\ ~_isClose
  /\ listener \in listeners[key]
  /\ listeners' = [listeners EXCEPT ![key] = @ \ {listener}]
  /\ _subscriptions' = Unsubscribed(_subscriptions, listeners', key)
  /\ last' = [op |-> "unSubscribe", key |-> key, removed |-> {listener},
              http |-> FALSE, write |-> FALSE, errs |-> {}]
  /\ UNCHANGED <<snapshot, _serverListCache, _currentServer, _isClose, _isLongPulling,
                 serverVal, inits, loop, immediates, ticks>>
  /\ subFrame

\* unSubscribe(info) without a listener: removeAllListeners(key).
UnSubscribeAll(key) ==
  /\ ~_isClose
  /\ listeners[key] # {}
  /\ listeners' = [listeners EXCEPT ![key] = {}]
  /\ _subscriptions' = Unsubscribed(_subscriptions, listeners', key)
  /\ last' = [op |-> "unSubscribe", key |-> key, removed |-> listeners[key],
              http |-> FALSE, write |-> FALSE, errs |-> {}]
  /\ UNCHANGED <<snapshot, _serverListCache, _currentServer, _isClose, _isLongPulling,
                 serverVal, inits, loop, immediates, ticks>>
  /\ subFrame

\* The getConfig of initial sync i is answered with resp: the rest of getConfig,
\* of _syncConfigs([item]) and _startLongPulling() (subscribe lines 123-126).
InitSyncAnswered(i, resp) ==
  /\ ticks = <<>>
  /\ i \in 1..Len(inits)
  /\ \E in \in GetOneInputs(_serverListCache, snapshot, SubUnit) :
       \E a \in {GetConfigAnswer(_serverListCache, snapshot, _currentServer[SubUnit],
                                  inits[i], resp, in)} :
       \E results \in {<<[key |-> inits[i], ok |-> a.ok, value |-> a.value]>>} :
       \E r \in {SyncResults(_subscriptions, results)} :
       \E p \in {StartLongPulling(_isLongPulling, _isClose, r.subs, loop)} :
           /\ Len(immediates) + Len(r.emits) <= MaxPending
           /\ snapshot' = a.snap
           /\ _serverListCache' = a.cache
           /\ _currentServer' = [_currentServer EXCEPT ![SubUnit] = a.cur]
           /\ _subscriptions' = r.subs
           /\ immediates' = setImmediate(immediates, r.emits)
           /\ _isLongPulling' = p.lp
           /\ loop' = p.loop
           /\ last' = [op |-> "sync", by |-> "init", lp |-> _isLongPulling, was |-> loop,
                       recs |-> SyncRecs(_subscriptions, results), emits |-> r.emits,
                       tagged |-> r.tagged,
                       http |-> p.http, write |-> a.write, errs |-> a.errs \cup r.errs]
  /\ inits' = Remove(inits, i)
  /\ UNCHANGED <<_isClose, listeners, serverVal, ticks>>
  /\ subFrame

\* The answer carries the content the server holds when it arrives, or the
\* request fails.
InitSyncDone(i, ok) ==
  /\ i \in 1..Len(inits)
  /\ InitSyncAnswered(i, ConfigResponse(ok, serverVal[inits[i]]))

\* The keys the server reports for a probe: those whose md5 it was sent differs
\* from the md5 of the content it holds.
UpdateListMut(probed, server) == {}

UpdateList(probed, server) ==
  {k \in DOMAIN probed : probed[k] # getMD5String(server[k])}

\* What the probe request can meet: an answer that parses, a failed request, an
\* answer on which decodeURIComponent throws (line 325).
ProbeResults == {"ok", "failed", "malformed"}

\* The catch of _startLongPulling (lines 271-275): the error is renamed and
\* reported, and the loop sleeps.
IterationFailedMut(errs) == [loop |-> LoopOff, lp |-> FALSE, errs |-> errs]

IterationFailed(errs) ==
  [loop |-> [pc |-> "sleep", probed |-> <<>>, gets |-> <<>>], lp |-> TRUE,
   errs |-> errs \cup {"DiamondLongPullingError"}]

\* The probe request is answered: the rest of _checkServerConfigInfo (lines
\* 316-319) or, when the request failed (_request selects another server and
\* throws) or the answer does not parse, the catch of _startLongPulling.
ProbeResponse(res) ==
  /\ ticks = <<>>
  /\ loop.pc = "probe"
  /\ IF res = "ok"
       THEN LET updateList == UpdateList(loop.probed, serverVal)
                p == LoopHead(_isClose, _subscriptions)
            IN  /\ IF updateList # {}
                     THEN /\ loop' = [pc |-> "sync", probed |-> <<>>,
                                      gets |-> [k \in updateList |-> [st |-> "sent"]]]
                          /\ UNCHANGED _isLongPulling
                     ELSE /\ loop' = p.loop
                          /\ _isLongPulling' = p.lp
                /\ last' = [op |-> "probed", list |-> updateList,
                            http |-> updateList # {} \/ p.http, write |-> FALSE, errs |-> {}]
                /\ UNCHANGED <<snapshot, _serverListCache, _currentServer>>
       ELSE \E in \in GetOneInputs(_serverListCache, snapshot, SubUnit) :
              \E g \in {IF res = "failed"
                          THEN GetOne(_serverListCache, snapshot, SubUnit, in[1], in[2])
                          ELSE [cache |-> _serverListCache, snap |-> snapshot,
                                host |-> _currentServer[SubUnit], errs |-> {},
                                http |-> FALSE, write |-> FALSE]} :
              \E c \in {IterationFailed(g.errs)} :
                  /\ snapshot' = g.snap
                  /\ _serverListCache' = g.cache
                  /\ _currentServer' = [_currentServer EXCEPT ![SubUnit] = g.host]
                  /\ loop' = c.loop
                  /\ _isLongPulling' = c.lp
                  /\ last' = [op |-> "probeFailed", cause |-> res, http |-> g.http,
                              write |-> g.write, errs |-> c.errs]
  /\ UNCHANGED <<_isClose, _subscriptions, listeners, serverVal, inits, immediates, ticks>>
  /\ subFrame

\* _syncConfigs of the loop once getConfig has ended as a for key: the result is
\* kept until gather has them all; then lines 141-167 run over the list, and the
\* loop head follows.
LoopSynced(key, a) ==
  LET gets == [loop.gets EXCEPT ![key] = [st |-> "done", ok |-> a.ok, value |-> a.value]]
  IN  IF \E k \in DOMAIN gets : gets[k].st = "sent"
        THEN /\ loop' = [loop EXCEPT !.gets = gets]
             /\ last' = [op |-> "got", http |-> FALSE, write |-> a.write, errs |-> a.errs]
             /\ UNCHANGED <<_subscriptions, immediates, _isLongPulling>>
        ELSE \E list \in Orders(DOMAIN gets) :
               \E results \in {[j \in DOMAIN list |->
                                   [key |-> list[j], ok |-> gets[list[j]].ok,
                                    value |-> gets[list[j]].value]]} :
               \E r \in {SyncResults(_subscriptions, results)} :
               \E p \in {LoopHead(_isClose, r.subs)} :
                   /\ Len(immediates) + Len(r.emits) <= MaxPending
                   /\ _subscriptions' = r.subs
                   /\ immediates' = setImmediate(immediates, r.emits)
                   /\ _isLongPulling' = p.lp
                   /\ loop' = p.loop
                   /\ last' = [op |-> "sync", by |-> "loop",
                               recs |-> SyncRecs(_subscriptions, results),
                               emits |-> r.emits, tagged |-> r.tagged, http |-> p.http,
                               write |-> a.write, errs |-> a.errs \cup r.errs]

\* A getConfig of the loop's _syncConfigs(updateList) (line 318) is answered.
LoopConfigResponse(key, ok) ==
  /\ ticks = <<>>
  /\ loop.pc = "sync"
  /\ key \in DOMAIN loop.gets
  /\ loop.gets[key].st = "sent"
  /\ \E in \in GetOneInputs(_serverListCache, snapshot, SubUnit) :
       \E a \in {GetConfigAnswer(_serverListCache, snapshot, _currentServer[SubUnit], key,
                                  ConfigResponse(ok, serverVal[key]), in)} :
           /\ snapshot' = a.snap
           /\ _serverListCache' = a.cache
           /\ _currentServer' = [_currentServer EXCEPT ![SubUnit] = a.cur]
           /\ LoopSynced(key, a)
  /\ UNCHANGED <<_isClose, listeners, serverVal, inits, ticks>>
  /\ subFrame

\* The sleep after a failed iteration ends (line 274): back to the loop head.
LoopWake ==
  /\ ticks = <<>>
  /\ loop.pc = "sleep"
  /\ LET p == LoopHead(_isClose, _subscriptions)
     IN  /\ _isLongPulling' = p.lp
         /\ loop' = p.loop
         /\ last' = [op |-> "wake", http |-> p.http, write |-> FALSE, errs |-> {}]
  /\ UNCHANGED <<snapshot, _serverListCache, _currentServer, _isClose, _subscriptions,
                 listeners, serverVal, inits, immediates, ticks>>
  /\ subFrame

\* The contents of the emissions queued by setImmediate for a key, oldest first.
RECURSIVE QueuedFor(_, _)
QueuedFor(queue, key) ==
  IF queue = <<>> THEN <<>>
  ELSE IF Head(queue).key = key
    THEN <<Head(queue).content>> \o QueuedFor(Tail(queue), key)
  ELSE QueuedFor(Tail(queue), key)

\* The oldest setImmediate callback of _syncConfigs runs (line 165): emit(key,
\* content) calls the listeners registered for the key now.
RunImmediate ==
  /\ ticks = <<>>
  /\ immediates # <<>>
  /\ immediates' = Tail(immediates)
  /\ last' = [op |-> "emit", key |-> Head(immediates).key,
              content |-> Head(immediates).content,
              invoked |-> listeners[Head(immediates).key],
              hadItem |-> Head(immediates).key \in DOMAIN _subscriptions,
              http |-> FALSE, write |-> FALSE, errs |-> {}]
  /\ UNCHANGED <<snapshot, _serverListCache, _currentServer, _isClose, _isLongPulling,
                 _subscriptions, listeners, serverVal, inits, loop, ticks>>
  /\ subFrame

\* The oldest process.nextTick callback of subscribe runs (line 128): the
\* listener itself is called, registered or not.
RunTick ==
  /\ ticks # <<>>
  /\ ticks' = Tail(ticks)
  /\ last' = [op |-> "tick", key |-> Head(ticks).key, content |-> Head(ticks).content,
              invoked |-> {Head(ticks).listener},
              hadItem |-> Head(ticks).key \in DOMAIN _subscriptions,
              queued |-> QueuedFor(immediates, Head(ticks).key),
              http |-> FALSE, write |-> FALSE, errs |-> {}]
  /\ UNCHANGED <<snapshot, _serverListCache, _currentServer, _isClose, _isLongPulling,
                 _subscriptions, listeners, serverVal, inits, loop, immediates>>
  /\ subFrame

\* The content of a key changes on the server.
ServerChange(key, content) ==
  /\ serverVal[key] # content
  /\ serverVal' = [serverVal EXCEPT ![key] = content]
  /\ last' = [op |-> "serverChange", http |-> FALSE, write |-> FALSE, errs |-> {}]
  /\ UNCHANGED <<snapshot, _serverListCache, _currentServer, _isClose, _isLongPulling,
                 _subscriptions, listeners, inits, loop, immediates, ticks>>
  /\ subFrame

\* DiamondClient.close (client.js lines 235-241): serverMgr.close() and the
\* close() of the unit client (diamond_env.js lines 83-86).
FacadeClose ==
  /\ ~_isClose
  /\ _isClosed' = TRUE
  /\ _isClose' = TRUE
  /\ listeners' = [k \in Keys |-> {}]
  /\ last' = [op |-> "close", http |-> FALSE, write |-> FALSE, errs |-> {}]
  /\ UNCHANGED <<snapshot, _serverListCache, _currentServer, _isLongPulling,
                 _subscriptions, serverVal, inits, loop, immediates, ticks>>
  /\ UNCHANGED <<_isSync, syncPc, syncUnits, getOneCalls, rrPrev, reqs, fan, facVars>>

\* History: how a listener subscribed and the deliveries it got since (0, 1, more).
HistStep(h, ev) ==
  [k \in Keys |-> [l \in Listeners |->
     IF ev.op = "subscribe" /\ ev.key = k /\ ev.listener = l
       THEN [got |-> 0, how |-> ev.how]
     ELSE IF ev.op = "unSubscribe" /\ ev.key = k /\ l \in ev.removed
       THEN NoHist
     ELSE IF ev.op = "close"
       THEN NoHist
     ELSE IF ev.op \in {"emit", "tick"} /\ ev.key = k /\ l \in ev.invoked
               /\ h[k][l].how # "none"
       THEN [h[k][l] EXCEPT !.got = IF @ < 2 THEN @ + 1 ELSE @]
     ELSE h[k][l]]]

Counted == hist' = HistStep(hist, last')

\* A unit client with nothing subscribed, its server pool warm and its
\* _currentServer selected (the state an earlier request leaves).
InitSubClient ==
  /\ _isClosed = FALSE
  /\ _isSync = TRUE
  /\ syncPc = "sleep"
  /\ syncUnits = {}
  /\ getOneCalls = [u \in Units |-> 0]
  /\ rrPrev = [u \in Units |-> RRNone]
  /\ _serverListCache = [u \in {SubUnit} |-> [hosts |-> <<"h1">>, index |-> 0]]
  /\ _currentServer = [u \in Units |-> IF u = SubUnit THEN "h1" ELSE NULL]
  /\ reqs = [u \in Units |-> <<>>]
  /\ snapshot = [k \in {MgrFormatKey(SubUnit)} |-> JSONstringify(<<"h1">>)]
  /\ InitSubIdle
  /\ InitLast

\* Every operation of the unit client on the keys of HotKeys, requests failing
\* or not, the server contents changing.
NextSub ==
  \/ \E k \in HotKeys : \E l \in Subscribers(k) : Subscribe(k, l) /\ UNCHANGED hist
  \/ \E k \in HotKeys, l \in Listeners : UnSubscribe(k, l) /\ UNCHANGED hist
  \/ \E k \in HotKeys : UnSubscribeAll(k) /\ UNCHANGED hist
  \/ \E i \in 1..MaxInits, ok \in BOOLEAN : InitSyncDone(i, ok) /\ UNCHANGED hist
  \/ \E res \in ProbeResults : ProbeResponse(res) /\ UNCHANGED hist
  \/ \E k \in HotKeys, ok \in BOOLEAN : LoopConfigResponse(k, ok) /\ UNCHANGED hist
  \/ LoopWake /\ UNCHANGED hist
  \/ RunImmediate /\ UNCHANGED hist
  \/ RunTick /\ UNCHANGED hist
  \/ \E k \in HotKeys, c \in Contents : ServerChange(k, c) /\ UNCHANGED hist
  \/ FacadeClose /\ UNCHANGED hist

SpecSub == InitSubClient /\ [][NextSub]_vars

\* The calm environment: the server contents stay what they are and every
\* request succeeds; both keys are subscribed and the deliveries to each
\* listener are counted.
NextCalm ==
  \/ \E k \in Keys : \E l \in Subscribers(k) : Subscribe(k, l) /\ Counted
  \/ \E k \in Keys, l \in Listeners : UnSubscribe(k, l) /\ Counted
  \/ \E k \in Keys : UnSubscribeAll(k) /\ Counted
  \/ \E i \in 1..MaxInits : InitSyncDone(i, TRUE) /\ Counted
  \/ ProbeResponse("ok") /\ Counted
  \/ \E k \in Keys : LoopConfigResponse(k, TRUE) /\ Counted
  \/ RunImmediate /\ Counted
  \/ RunTick /\ Counted

SpecCalm == InitSubClient /\ [][NextCalm]_vars

(***************************************************************************)
(* C1, C2, C3, C4, C10: subscriptions                                      *)
(***************************************************************************)
EmitsFor(emits, key) == Cardinality({i \in DOMAIN emits : emits[i].key = key})

\* C1: whenever _syncConfigs obtains, for a key that has a Subscription, a
\* content whose MD5 equals the stored md5, it schedules no emission and leaves
\* md5 and content as they were; a content with another MD5 is stored with its
\* md5 and scheduled for emission exactly once. The same content fetched in two
\* successive polls is therefore emitted once.
C1_Md5Debounce ==
  last.op = "sync" =>
    \A r \in last.recs :
      (r.had /\ r.ok) =>
        IF getMD5String(r.content) = r.before.md5
          THEN /\ EmitsFor(last.emits, r.key) = 0
               /\ _subscriptions[r.key] = r.before
          ELSE /\ EmitsFor(last.emits, r.key) = 1
               /\ \E i \in DOMAIN last.emits :
                    last.emits[i] = [key |-> r.key, content |-> r.content]
               /\ _subscriptions[r.key] =
                    [md5 |-> getMD5String(r.content), content |-> r.content]

\* A sync that fetched again the content the Subscription already holds.
C1_Witness ==
  /\ last.op = "sync"
  /\ \E r \in last.recs :
       r.had /\ r.ok /\ r.before.md5 # NULL /\ getMD5String(r.content) = r.before.md5

\* C2 as stated (its "not twice" half): while the server contents stay the same
\* and every request succeeds, a listener whose subscribe created the
\* Subscription is called at most once.
C2_CreatorCalledOnce ==
  \A k \in Keys, l \in Listeners :
    hist[k][l].how = "create" => hist[k][l].got <= 1

\* C3 as stated (its "exactly one" half): a listener that subscribed to a key
\* whose Subscription had a non-null md5 is called at most once with the cached
\* content, whatever emission was queued at the time of the subscribe.
C3_JoinerCalledOnce ==
  \A k \in Keys, l \in Listeners :
    hist[k][l].how = "cached" => hist[k][l].got <= 1

\* C4 as stated: a delivery for a key calls a listener only while the key has a
\* Subscription, that is, never once unSubscribe has removed its last listener.
C4_NoCallAfterLastUnSubscribe ==
  (last.op \in {"emit", "tick"} /\ last.invoked # {}) => last.hadItem

\* The getConfig requests outstanding for a key: initial syncs and the loop's.
Outstanding(key) ==
  Cardinality({i \in DOMAIN inits : inits[i] = key})
    + (IF loop.pc = "sync" /\ key \in DOMAIN loop.gets /\ loop.gets[key].st = "sent"
         THEN 1 ELSE 0)

UnitBodies == { <<>>, <<"u1">>, <<"u1", " ", "u2">> }

UnitListResponses ==
  {[status |-> 200, data |-> b] : b \in UnitBodies} \cup {[status |-> 500, data |-> <<>>]}

\* fetchUnitLists lines 225-226: split on newlines, trim, drop the empty ones.
fetchUnitLists(data) ==
  LET units == ParseHostLines(data) IN {units[i] : i \in DOMAIN units}

\* The statuses a publishSingle or remove request can be answered with.
WriteResponses ==
  {[status |-> st, data |-> ""] : st \in {200, 404, 409, 500, -1}}

\* `yield units.map(...); return true` (client.js lines 206-207, 219-220): the
\* call throws with the first unit operation that fails and returns true once
\* all have succeeded.
FanResultMut(op) ==
  IF \E u \in DOMAIN op : op[u] = "ok" THEN "true"
  ELSE IF \E u \in DOMAIN op : op[u] = "failed" THEN "thrown"
  ELSE "none"

FanResult(op) ==
  IF \E u \in DOMAIN op : op[u] = "failed" THEN "thrown"
  ELSE IF \A u \in DOMAIN op : op[u] = "ok" THEN "true"
  ELSE "none"

fanFrame ==
  UNCHANGED <<_isClosed, _isSync, syncPc, syncUnits, getOneCalls, rrPrev, reqs,
              _isClose, _isLongPulling, _subscriptions, listeners, serverVal, inits,
              loop, immediates, ticks, hist, facVars>>

\* publishToAllUnit / removeToAllUnit is called: getAllUnits sends its request.
FanCall ==
  /\ ~_isClosed
  /\ \/ fan.pc = "idle"
     \/ fan.pc = "done"
     \/ fan.pc = "run" /\ \A u \in fan.units : fan.op[u] \in {"ok", "failed"}
  /\ fan' = [FanIdle EXCEPT !.pc = "units"]
  /\ last' = [op |-> "fanCall", http |-> TRUE, write |-> FALSE, errs |-> {}]
  /\ UNCHANGED <<snapshot, _serverListCache, _currentServer>>
  /\ fanFrame

\* The unit list is answered: the call fails (ServerListManager._request throws)
\* or the operation of every unit is started.
FanUnits(resp) ==
  /\ fan.pc = "units"
  /\ IF resp.status # 200
       THEN fan' = [fan EXCEPT !.pc = "done", !.ret = "thrown"]
       ELSE LET units == fetchUnitLists(resp.data)
                op == [u \in units |-> "start"]
            IN  fan' = [pc |-> "run", units |-> units, op |-> op,
                        ret |-> FanResult(op), seen |-> {}]
  /\ last' = [op |-> "fanUnits", status |-> resp.status, http |-> FALSE, write |-> FALSE,
              errs |-> {}]
  /\ UNCHANGED <<snapshot, _serverListCache, _currentServer>>
  /\ fanFrame

\* _request of the unit's client up to the request (diamond_env.js lines
\* 182-184, 218): the server is selected when none is, and the request is sent.
FanSend(unit) ==
  /\ fan.pc = "run"
  /\ unit \in fan.units
  /\ fan.op[unit] = "start"
  /\ \E in \in GetOneInputs(_serverListCache, snapshot, unit) :
       LET g == IF _currentServer[unit] # NULL
                  THEN [cache |-> _serverListCache, snap |-> snapshot,
                        host |-> _currentServer[unit], errs |-> {}, http |-> FALSE,
                        write |-> FALSE]
                  ELSE GetOne(_serverListCache, snapshot, unit, in[1], in[2])
           op == [fan.op EXCEPT ![unit] = IF g.host = NULL THEN "failed" ELSE "sent"]
       IN  /\ snapshot' = g.snap
           /\ _serverListCache' = g.cache
           /\ _currentServer' = [_currentServer EXCEPT ![unit] = g.host]
           /\ fan' = [fan EXCEPT !.op = op, !.ret = FanResult(op),
                                 !.seen = IF g.host = NULL THEN @ ELSE @ \cup {unit}]
           /\ last' = [op |-> "fanSend", unit |-> unit, failed |-> g.host = NULL,
                       before |-> fan.op, retBefore |-> fan.ret,
                       http |-> TRUE, write |-> g.write, errs |-> g.errs]
  /\ fanFrame

\* The request of a unit is answered: publishSingle / remove returns true, or
\* _request selects another server and throws (lines 232-253).
FanResponse(unit, resp) ==
  /\ fan.pc = "run"
  /\ unit \in fan.units
  /\ fan.op[unit] = "sent"
  /\ LET out == RequestOutcome(resp)
     IN  IF out.ok
           THEN LET op == [fan.op EXCEPT ![unit] = "ok"]
                IN  /\ fan' = [fan EXCEPT !.op = op, !.ret = FanResult(op)]
                    /\ last' = [op |-> "fanResponse", unit |-> unit, failed |-> FALSE,
                                before |-> fan.op, retBefore |-> fan.ret,
                                http |-> FALSE, write |-> FALSE, errs |-> {}]
                    /\ UNCHANGED <<snapshot, _serverListCache, _currentServer>>
           ELSE \E in \in GetOneInputs(_serverListCache, snapshot, unit) :
                  LET g == GetOne(_serverListCache, snapshot, unit, in[1], in[2])
                      op == [fan.op EXCEPT ![unit] = "failed"]
                  IN  /\ snapshot' = g.snap
                      /\ _serverListCache' = g.cache
                      /\ _currentServer' = [_currentServer EXCEPT ![unit] = g.host]
                      /\ fan' = [fan EXCEPT !.op = op, !.ret = FanResult(op)]
                      /\ last' = [op |-> "fanResponse", unit |-> unit, failed |-> TRUE,
                                  before |-> fan.op, retBefore |-> fan.ret,
                                  http |-> g.http, write |-> g.write, errs |-> g.errs]
  /\ fanFrame

\* A fresh client: nothing cached, no snapshot file, no unit client yet.
InitF == InitMgr /\ snapshot = <<>> /\ InitGetIdle /\ InitSubIdle /\ InitLast

NextFan ==
  \/ FanCall
  \/ \E resp \in UnitListResponses : FanUnits(resp)
  \/ \E u \in Units : FanSend(u)
  \/ \E u \in Units, resp \in WriteResponses : FanResponse(u, resp)

SpecFan == InitF /\ [][NextFan]_vars

(***************************************************************************)
(* The background loops: the long-polling loop of the unit client and the  *)
(* refresh loop of the manager, under fair scheduling: a request in flight *)
(* is answered, a sleep ends, a queued callback runs. The server contents  *)
(* stay what they are and one listener subscribes, so that no cached       *)
(* delivery is queued with process.nextTick.                               *)
(***************************************************************************)
NextLive ==
  \/ \E k \in HotKeys : Subscribe(k, "L1") /\ UNCHANGED hist
  \/ \E k \in HotKeys : UnSubscribeAll(k) /\ UNCHANGED hist
  \/ \E i \in 1..MaxInits, ok \in BOOLEAN : InitSyncDone(i, ok) /\ UNCHANGED hist
  \/ \E res \in ProbeResults : ProbeResponse(res) /\ UNCHANGED hist
  \/ \E k \in HotKeys, ok \in BOOLEAN : LoopConfigResponse(k, ok) /\ UNCHANGED hist
  \/ LoopWake /\ UNCHANGED hist
  \/ RunImmediate /\ UNCHANGED hist
  \/ FacadeClose /\ UNCHANGED hist
  \/ SyncWake
  \/ \E u \in Units : SyncFetched(u)

FairLive ==
  /\ WF_vars(\E i \in 1..MaxInits, ok \in BOOLEAN : InitSyncDone(i, ok) /\ UNCHANGED hist)
  /\ WF_vars(\E res \in ProbeResults : ProbeResponse(res) /\ UNCHANGED hist)
  /\ WF_vars(\E k \in HotKeys, ok \in BOOLEAN : LoopConfigResponse(k, ok) /\ UNCHANGED hist)
  /\ WF_vars(LoopWake /\ UNCHANGED hist)
  /\ WF_vars(RunImmediate /\ UNCHANGED hist)
  /\ WF_vars(SyncWake)
  /\ WF_vars(\E u \in Units : SyncFetched(u))

SpecLive == InitSubClient /\ [][NextLive]_vars /\ FairLive

(***************************************************************************)
(* One _syncConfigs of the loop over two keys: the unit client in the      *)
(* middle of an iteration whose probe answer listed both keys, whatever    *)
(* its Subscriptions hold and whatever the server holds now.               *)
(***************************************************************************)
\* What a Subscription can hold: nothing yet, an empty content, a content.
ItemContents == {NULL, "", "v1"}

ItemWith(content) ==
  IF content = NULL THEN NewItem
  ELSE [md5 |-> getMD5String(content), content |-> content]

\* getConfig line 405 saved the content of every Subscription that holds one.
InitBatch ==
  /\ _isClosed = FALSE
  /\ _isSync = TRUE
  /\ syncPc = "sleep"
  /\ syncUnits = {}
  /\ getOneCalls = [u \in Units |-> 0]
  /\ rrPrev = [u \in Units |-> RRNone]
  /\ _serverListCache = [u \in {SubUnit} |-> [hosts |-> <<"h1">>, index |-> 0]]
  /\ _currentServer = [u \in Units |-> IF u = SubUnit THEN "h1" ELSE NULL]
  /\ reqs = [u \in Units |-> <<>>]
  /\ _isClose = FALSE
  /\ _isLongPulling = TRUE
  /\ listeners = [k \in Keys |-> {"L1"}]
  /\ inits = <<>>
  /\ immediates = <<>>
  /\ ticks = <<>>
  /\ hist = [k \in Keys |-> [l \in Listeners |-> NoHist]]
  /\ fan = FanIdle
  /\ CURRENT_UNIT = NULL
  /\ envReqs = NoEnvReqs
  /\ _clients = <<>>
  /\ envs = NoEnvs
  /\ loop = [pc |-> "sync", probed |-> <<>>, gets |-> [k \in Keys |-> [st |-> "sent"]]]
  /\ serverVal \in [Keys -> Contents]
  /\ \E held \in [Keys -> ItemContents] :
       /\ _subscriptions = [k \in Keys |-> ItemWith(held[k])]
       /\ snapshot =
            [f \in {MgrFormatKey(SubUnit)}
                     \cup {_getSnapshotKey(SubUnit, k, Group) : k \in {x \in Keys : held[x] # NULL}}
               |-> IF f = MgrFormatKey(SubUnit) THEN JSONstringify(<<"h1">>)
                   ELSE FileOf(held[f[5]])]
  /\ InitLast

NextBatch ==
  \/ \E k \in Keys, ok \in BOOLEAN : LoopConfigResponse(k, ok) /\ UNCHANGED hist
  \/ \E res \in ProbeResults : ProbeResponse(res) /\ UNCHANGED hist
  \/ LoopWake /\ UNCHANGED hist
  \/ RunImmediate /\ UNCHANGED hist

SpecBatch == InitBatch /\ [][NextBatch]_vars

(***************************************************************************)
(* C11..C20: delivery order, loops, polling set                            *)
(***************************************************************************)
\* C11 as stated: a content is delivered to a listener only after every distinct
\* content accepted before it has been delivered: when a listener is called with
\* the content of its Subscription, no emission of another content of the key is
\* still waiting to be delivered.
C11_EmissionOrder ==
  (last.op = "tick" /\ last.hadItem) =>
    \A i \in DOMAIN last.queued : last.queued[i] = last.content

\* C12: publishToAllUnit / removeToAllUnit returns true only when the operation
\* of every enumerated unit succeeded and throws as soon as one has failed; the
\* failure leaves the operations of the other units as they were, and a request
\* sent after the call has failed still reaches its server.
C12_FanOut ==
  /\ fan.ret = "true" => \A u \in fan.units : fan.op[u] = "ok"
  /\ (\E u \in fan.units : fan.op[u] = "failed") => fan.ret = "thrown"
  /\ (last.op \in {"fanSend", "fanResponse"} /\ last.failed) =>
       \A v \in fan.units \ {last.unit} : fan.op[v] = last.before[v]
  /\ (last.op = "fanSend" /\ ~last.failed) =>
       (fan.op[last.unit] = "sent" /\ last.unit \in fan.seen)

\* The request of one unit is sent after the operation of the other unit has
\* made the call fail.
C12_Witness ==
  /\ last.op = "fanSend"
  /\ ~last.failed
  /\ last.retBefore = "thrown"
  /\ last.unit \in fan.seen
  /\ \E v \in fan.units \ {last.unit} : fan.op[v] = "failed"

\* C13: once close() has set the closed flags, the long-polling loop of the unit
\* client and the refresh loop of the manager eventually exit, and from then on
\* stay exited with _isLongPulling (and _isSync) false.
C13_LoopsTerminate ==
  (_isClose /\ _isClosed) ~>
    [](loop.pc = "off" /\ ~_isLongPulling /\ syncPc = "done" /\ ~_isSync)

\* Closed while a probe was in flight: the step that handled its answer, or the
\* wake after its failure, has ended the loop, and the refresh loop has ended.
C13_Witness ==
  /\ _isClose
  /\ last.op \in {"probed", "wake", "sync"}
  /\ DOMAIN _subscriptions # {}
  /\ loop.pc = "off"
  /\ ~_isLongPulling
  /\ syncPc = "done"
  /\ ~_isSync

\* C14: the step of _syncConfigs that accepts contents calls no listener: when
\* it ends, every Subscription it accepted a content for holds the new md5 and
\* content and the emissions of the call are all still queued, in order, behind
\* the older ones; the subscribe of a key with a cached content leaves the call
\* of its listener queued.
C14_DeferredDelivery ==
  /\ last.op = "sync" =>
       /\ Len(immediates) >= Len(last.emits)
       /\ SubSeq(immediates, Len(immediates) - Len(last.emits) + 1, Len(immediates))
            = last.emits
       /\ \A i \in DOMAIN last.emits :
            /\ last.emits[i].key \in DOMAIN _subscriptions
            /\ _subscriptions[last.emits[i].key] =
                 [md5 |-> getMD5String(last.emits[i].content),
                  content |-> last.emits[i].content]
  /\ (last.op = "subscribe" /\ last.how = "cached") =>
       /\ ticks # <<>>
       /\ ticks[Len(ticks)] = [listener |-> last.listener, key |-> last.key,
                               content |-> _subscriptions[last.key].content]

\* A _syncConfigs of the loop accepted a changed content while a listener is
\* registered and an older emission is still queued.
C14_Witness ==
  /\ last.op = "sync"
  /\ last.by = "loop"
  /\ Len(last.emits) = 1
  /\ Len(immediates) = 2
  /\ listeners[last.emits[1].key] # {}

\* C15: the flag _isLongPulling is set exactly while the long-polling loop is
\* active, and the _startLongPulling of an initial sync that completes while the
\* loop is active starts nothing: the loop stays where it was and no probe is
\* sent. Hence at most one loop task is active.
C15_SingleFlight ==
  /\ _isLongPulling <=> loop.pc # "off"
  /\ (last.op = "sync" /\ last.by = "init" /\ last.lp) =>
       (loop = last.was /\ _isLongPulling /\ ~last.http)

\* An initial sync completes while the loop is waiting for its getConfig answers
\* or sleeping.
C15_Witness ==
  /\ last.op = "sync"
  /\ last.by = "init"
  /\ last.lp
  /\ loop.pc \in {"sync", "sleep"}

C17_InitialSyncBeforeProbe ==
  (/\ loop.pc = "probe"
   /\ \/ last.op \in {"probed", "wake"}
      \/ last.op = "sync" /\ (last.by = "loop" \/ ~last.lp))
    => \A k \in DOMAIN loop.probed : \A i \in DOMAIN inits : inits[i] # k

\* C18: when the getConfig of a Subscription fails inside _syncConfigs, a
\* DiamondSyncConfigError carrying its dataId is reported, its md5 and content
\* stay what they were, no emission is queued for it, the other results of the
\* batch are processed (a content with another MD5 is stored and queued), and the
\* next probe lists the key with its old md5.
C18_FailedResyncKeepsState ==
  last.op = "sync" =>
    \A r \in last.recs :
      (r.had /\ ~r.ok) =>
        /\ "DiamondSyncConfigError" \in last.errs
        /\ r.key \in last.tagged
        /\ _subscriptions[r.key] = r.before
        /\ EmitsFor(last.emits, r.key) = 0
        /\ loop.pc = "probe" /\ loop.probed[r.key] = r.before.md5
        /\ \A o \in last.recs :
             (o.had /\ o.ok /\ getMD5String(o.content) # o.before.md5) =>
               /\ _subscriptions[o.key] =
                    [md5 |-> getMD5String(o.content), content |-> o.content]
               /\ EmitsFor(last.emits, o.key) = 1

\* A batch of two keys: the getConfig of one failed while it held a content, the
\* other brought a new content.
C18_Witness ==
  /\ last.op = "sync"
  /\ \E r, o \in last.recs :
       /\ r.had /\ ~r.ok /\ r.before.md5 # NULL
       /\ o.key # r.key
       /\ o.had /\ o.ok /\ getMD5String(o.content) # o.before.md5

\* C19 as stated: in every state a key has a Subscription in the polling set
\* exactly when at least one listener is registered for it.
C19_PollingSetMatchesListeners ==
  \A k \in Keys : (k \in DOMAIN _subscriptions) <=> (listeners[k] # {})

\* C20: after every step, every Subscription with a non-null content holds the
\* MD5 of that content as md5; the md5 or the content of a Subscription changes
\* only in a step of _syncConfigs, and then both change.
C20_Md5ContentConsistency ==
  [][/\ \A k \in DOMAIN _subscriptions' :
          _subscriptions'[k].content # NULL =>
            _subscriptions'[k].md5 = getMD5String(_subscriptions'[k].content)
     /\ \A k \in DOMAIN _subscriptions \cap DOMAIN _subscriptions' :
          _subscriptions'[k] # _subscriptions[k] =>
            /\ last'.op = "sync"
            /\ _subscriptions'[k].md5 # _subscriptions[k].md5
            /\ _subscriptions'[k].content # _subscriptions[k].content]_vars

\* A _syncConfigs replaced one content by another.
C20_Witness ==
  /\ last.op = "sync"
  /\ \E r \in last.recs :
       /\ r.had /\ r.ok
       /\ r.before.content # NULL
       /\ r.content # r.before.content
       /\ _subscriptions[r.key] = [md5 |-> getMD5String(r.content), content |-> r.content]

(***************************************************************************)
(* The facade: getCurrentUnit (client.js lines 69-71, server_list_mgr.js    *)
(* lines 92-103), the registry of unit clients (client.js lines 243-252)    *)
(* and close (lines 235-241). A DiamondEnv instance is a number, in the     *)
(* order of construction. Nothing in the facade tests that it is closed:   *)
(* its methods can be called after close().                                 *)
(***************************************************************************)
\* Bound: getCurrentUnit calls waiting for the answer to GET /env at once.
MaxEnvReqs == 2
\* Bound: GET /env requests sent in a run.
MaxEnvSent == 3
\* Bound: DiamondEnv instances made in a run.
MaxEnvs == 3

\* The answers to GET /env: the unit name, a blank body, a failure.
EnvResponses ==
  {[status |-> 200, data |-> "u1"], [status |-> 200, data |-> " "],
   [status |-> 500, data |-> ""]}

\* `!this[CURRENT_UNIT]` (line 93).
Memoized(unit) == unit # NULL /\ unit # ""

\* getCurrentUnit with the unit memoized: returned at once (line 102).
GetCurrentUnitHit ==
  /\ Memoized(CURRENT_UNIT)
  /\ last' = [op |-> "getCurrentUnit", ret |-> CURRENT_UNIT, thrown |-> NULL,
              memo |-> CURRENT_UNIT, http |-> FALSE, write |-> FALSE, errs |-> {}]
  /\ UNCHANGED <<snapshot, mgrVars, getVars, subVars>>

\* getCurrentUnit without a memoized unit: GET /env is sent (lines 93-98).
GetCurrentUnitSend ==
  /\ ~Memoized(CURRENT_UNIT)
  /\ envReqs.flying < MaxEnvReqs
  /\ envReqs.sent < MaxEnvSent
  /\ envReqs' = [envReqs EXCEPT !.flying = @ + 1, !.sent = @ + 1]
  /\ last' = [op |-> "env", flying |-> envReqs.flying, http |-> TRUE, write |-> FALSE,
              errs |-> {}]
  /\ UNCHANGED <<CURRENT_UNIT, _clients, envs>>
  /\ UNCHANGED <<snapshot, mgrVars, getVars, _isClose, _isLongPulling, _subscriptions,
                 listeners, serverVal, inits, loop, immediates, ticks, hist, fan>>

\* The answer to GET /env: _request throws on a status other than 200; else the
\* trimmed body is stored and returned (lines 99-102).
GetCurrentUnitResponse(resp) ==
  /\ envReqs.flying > 0
  /\ IF MgrRequestOk(resp)
       THEN /\ CURRENT_UNIT' = trim(resp.data)
            /\ envReqs' = [envReqs EXCEPT !.flying = @ - 1,
                             !.void = IF Memoized(trim(resp.data)) THEN @ ELSE @ + 1]
            /\ last' = [op |-> "getCurrentUnit", ret |-> trim(resp.data),
                        thrown |-> NULL, memo |-> CURRENT_UNIT, http |-> FALSE,
                        write |-> FALSE, errs |-> {}]
       ELSE /\ CURRENT_UNIT' = CURRENT_UNIT
            /\ envReqs' = [envReqs EXCEPT !.flying = @ - 1, !.void = @ + 1]
            /\ last' = [op |-> "getCurrentUnit", ret |-> NULL,
                        thrown |-> "DiamondServerResponseError", memo |-> CURRENT_UNIT,
                        http |-> FALSE, write |-> FALSE, errs |-> {}]
  /\ UNCHANGED <<_clients, envs>>
  /\ UNCHANGED <<snapshot, mgrVars, getVars, _isClose, _isLongPulling, _subscriptions,
                 listeners, serverVal, inits, loop, immediates, ticks, hist, fan>>

\* _getClient lines 245-250: the registered instance, or a new one registered.
Registered(clients, unit, made) ==
  IF unit \in DOMAIN clients THEN clients[unit] ELSE made + 1

\* _getClient({ unit }), as subscribe, getConfig, publishSingle ... call it.
GetClient(unit) ==
  /\ unit \in DOMAIN _clients \/ envs.made < MaxEnvs
  /\ LET client == Registered(_clients, unit, envs.made)
     IN  /\ _clients' = [u \in DOMAIN _clients \cup {unit} |->
                           IF u = unit THEN client ELSE _clients[u]]
         /\ envs' = IF client > envs.made
                      THEN [made |-> client, open |-> envs.open \cup {client}]
                      ELSE envs
         /\ last' = [op |-> "_getClient", unit |-> unit, ret |-> client,
                     registered |-> _clients, http |-> FALSE, write |-> FALSE,
                     errs |-> {}]
  /\ UNCHANGED <<CURRENT_UNIT, envReqs>>
  /\ UNCHANGED <<snapshot, mgrVars, getVars, _isClose, _isLongPulling, _subscriptions,
                 listeners, serverVal, inits, loop, immediates, ticks, hist, fan>>

\* close() lines 235-241: the manager and every registered instance are closed,
\* and the registry is cleared.
ClosedAllMut(clients, open) == open \ {clients[u] : u \in DOMAIN clients \ {"u2"}}

ClosedAll(clients, open) == open \ {clients[u] : u \in DOMAIN clients}

Close ==
  /\ _isClosed' = TRUE
  /\ envs' = [envs EXCEPT !.open = ClosedAll(_clients, @)]
  /\ _clients' = <<>>
  /\ last' = [op |-> "DiamondClient.close", registered |-> _clients,
              http |-> FALSE, write |-> FALSE, errs |-> {}]
  /\ UNCHANGED <<CURRENT_UNIT, envReqs>>
  /\ UNCHANGED <<snapshot, _isSync, _serverListCache, syncPc, syncUnits, getOneCalls,
                 rrPrev, getVars, _isClose, _isLongPulling, _subscriptions, listeners,
                 serverVal, inits, loop, immediates, ticks, hist, fan>>

NextFacade ==
  \/ GetCurrentUnitHit
  \/ GetCurrentUnitSend
  \/ \E resp \in EnvResponses : GetCurrentUnitResponse(resp)
  \/ \E u \in Units : GetClient(u)
  \/ Close

SpecFacade == InitF /\ [][NextFacade]_vars

(***************************************************************************)
(* Convergence: a unit client that stays open, one listener subscribed to   *)
(* each key and never removed, so that the initial sync of d1 can be in     *)
(* flight while the loop, started for d2, probes and syncs d1. The content *)
(* of d1 changes once on the server, from FirstContent to another one. The *)
(* answer to the initial sync can be the one the server made before the    *)
(* change and arrive after the answer to the loop's getConfig, made after  *)
(* it. Requests fail, and succeed again and again (strong fairness of the  *)
(* successful answers: the hypothesis that requests eventually succeed);   *)
(* sleeps end, queued emissions run and answers arrive (weak fairness).    *)
(***************************************************************************)
\* The content the server holds for every key at the start (InitSubIdle).
FirstContent == "v1"
ConvKey == "d1"

\* The initial sync is answered with the content the server held before the
\* change.
InitSyncStale(i) ==
  /\ i \in 1..Len(inits)
  /\ inits[i] = ConvKey
  /\ serverVal[ConvKey] # FirstContent
  /\ InitSyncAnswered(i, ConfigResponse(TRUE, FirstContent))

NextConv ==
  \/ \E k \in Keys : Subscribe(k, "L1") /\ UNCHANGED hist
  \/ \E i \in 1..MaxInits, ok \in BOOLEAN : InitSyncDone(i, ok) /\ UNCHANGED hist
  \/ \E i \in 1..MaxInits : InitSyncStale(i) /\ UNCHANGED hist
  \/ \E res \in ProbeResults : ProbeResponse(res) /\ UNCHANGED hist
  \/ \E k \in Keys, ok \in BOOLEAN : LoopConfigResponse(k, ok) /\ UNCHANGED hist
  \/ LoopWake /\ UNCHANGED hist
  \/ RunImmediate /\ UNCHANGED hist
  \/ ServerChange(ConvKey, "v2") /\ UNCHANGED hist

FairConv ==
  /\ WF_vars(\E i \in 1..MaxInits, ok \in BOOLEAN : InitSyncDone(i, ok) /\ UNCHANGED hist)
  /\ SF_vars(ProbeResponse("ok") /\ UNCHANGED hist)
  /\ \A k \in Keys : SF_vars(LoopConfigResponse(k, TRUE) /\ UNCHANGED hist)
  /\ WF_vars(LoopWake /\ UNCHANGED hist)
  /\ WF_vars(RunImmediate /\ UNCHANGED hist)

SpecConv == InitSubClient /\ [][NextConv]_vars /\ FairConv

(***************************************************************************)
(* C21..C29                                                                *)
(***************************************************************************)
\* C21 as stated: a request answered with 409 fails with
\* DiamondServerConflictError, and a request that ends with another status than
\* 200 and 404 or with a transport error fails with DiamondServerResponseError.
C21_RequestErrorTag ==
  (last.op = "getConfig" /\ last.status \notin {0, 200, 404}) =>
    last.raised = IF last.status = 409 THEN "DiamondServerConflictError"
                  ELSE "DiamondServerResponseError"

\* C22: currentHost of a unit client changes only in a request that starts with
\* it unset or in the handling of a failed request; a request answered 200 or
\* 404 leaves currentHost and every pool as they are; the handling of a failed
\* request sets currentHost to the host getOne(unit) returns (the pool's host at
\* its index), which is the host the next request is sent to; a request of one
\* unit never changes currentHost or the pool of another unit.
C22_SameEntry(u) ==
  /\ (u \in DOMAIN _serverListCache') = (u \in DOMAIN _serverListCache)
  /\ u \in DOMAIN _serverListCache => _serverListCache'[u] = _serverListCache[u]

C22_Step ==
  /\ \A u \in Units :
       /\ _currentServer'[u] # _currentServer[u] =>
            /\ last'.op \in {"send", "getConfig"}
            /\ last'.unit = u
            /\ \/ last'.op = "send" /\ _currentServer[u] = NULL
               \/ last'.op = "getConfig" /\ last'.status \notin {200, 404}
       /\ (last'.op \in {"send", "getConfig"} /\ last'.unit # u) =>
            /\ _currentServer'[u] = _currentServer[u]
            /\ C22_SameEntry(u)
  /\ (last'.op = "getConfig" /\ last'.status \in {200, 404}) =>
       /\ _currentServer' = _currentServer
       /\ \A u \in Units : C22_SameEntry(u)
  /\ (last'.op = "getConfig" /\ last'.status \notin {0, 200, 404}
        /\ CacheHit(_serverListCache, last'.unit)) =>
       LET pool == _serverListCache[last'.unit]
       IN  _currentServer'[last'.unit] = pool.hosts[pool.index + 1]
  /\ (last'.op = "send" /\ _currentServer[last'.unit] # NULL) =>
       /\ last'.host = _currentServer[last'.unit]
       /\ _currentServer' = _currentServer

C22_HostFailoverFrame == [][C22_Step]_vars

\* A failed request after which the unit client targets another host.
C22_Witness ==
  /\ last.op = "getConfig"
  /\ last.status \in {409, 500, -1}
  /\ _currentServer[last.unit] # NULL
  /\ _currentServer[last.unit] # last.hostBefore

\* C23: a unit that getOne has fetched stays a key of the server list cache
\* (with a null entry when no list was obtained); every refresh tick fetches all
\* keys of the cache; the loop runs as long as the manager is not closed,
\* whatever the fetches answer; a refresh answered with a non-empty list leaves
\* a pool, so getOne returns a host; and a unit with a null entry is fetched
\* again eventually unless the manager is closed.
C23_RefreshRecovers ==
  /\ [][\A u \in DOMAIN _serverListCache : u \in DOMAIN _serverListCache']_vars
  /\ [](last.op \in {"getOne", "getOneNull"} =>
          /\ last.unit \in DOMAIN _serverListCache
          /\ last.host = NULL => _serverListCache[last.unit] = NullData)
  /\ [](last.op = "syncWake" =>
          /\ last.units = DOMAIN _serverListCache
          /\ syncUnits = last.units)
  /\ [](~_isClosed => (_isSync /\ syncPc \in {"sleep", "fetch"}))
  /\ []((last.op = "syncFetched" /\ Len(last.wire) > 0) =>
          /\ CacheHit(_serverListCache, last.unit)
          /\ _serverListCache[last.unit].hosts = last.wire)
  /\ \A u \in Units :
       (u \in DOMAIN _serverListCache /\ _serverListCache[u] = NullData)
         ~> (_isClosed \/ (last.op = "syncFetched" /\ last.unit = u))

\* A unit with a null entry has been fetched by a refresh tick, which left a pool,
\* while the other unit has a null entry.
C23_Witness ==
  /\ last.op = "syncFetched"
  /\ ~last.warm
  /\ Len(last.wire) > 0
  /\ ~_isClosed
  /\ CacheHit(_serverListCache, last.unit)
  /\ \E v \in DOMAIN _serverListCache : _serverListCache[v] = NullData

\* C24 as stated: a refresh of a unit whose cache entry holds a pool leaves a
\* pool as long as the manager is not closed, whatever the fetch and the
\* snapshot give; a pool in the cache has at least one host and an index
\* within its host list.
C24_WarmPoolLives ==
  /\ (last.op = "syncFetched" /\ last.warm /\ ~_isClosed) =>
       CacheHit(_serverListCache, last.unit)
  /\ \A u \in DOMAIN _serverListCache :
       _serverListCache[u] # NullData =>
         /\ Len(_serverListCache[u].hosts) >= 1
         /\ _serverListCache[u].index \in 0..(Len(_serverListCache[u].hosts) - 1)

C26_CurrentUnitResolvedOnce ==
  /\ envReqs.sent - envReqs.void <= 1
  /\ (last.op = "getCurrentUnit" /\ Memoized(last.memo) /\ last.thrown = NULL) =>
       last.ret = last.memo

\* C27: the registry holds one open instance per unit, different units have
\* different instances, and _getClient returns the registered instance of a
\* unit; close() closes the server list manager and every registered instance
\* and empties the registry, so an instance that is open is in the registry:
\* after close() no instance handed out before it is open.
C27_FacadeRegistry ==
  /\ \A u \in DOMAIN _clients : _clients[u] \in envs.open
  /\ \A u, v \in DOMAIN _clients : u # v => _clients[u] # _clients[v]
  /\ \A i \in envs.open : \E u \in DOMAIN _clients : _clients[u] = i
  /\ last.op = "_getClient" =>
       /\ _clients[last.unit] = last.ret
       /\ last.unit \in DOMAIN last.registered => last.ret = last.registered[last.unit]
       /\ last.unit \notin DOMAIN last.registered =>
            \A u \in DOMAIN last.registered : last.registered[u] # last.ret
  /\ last.op = "DiamondClient.close" =>
       /\ _isClosed
       /\ _clients = <<>>
       /\ envs.open = {}

\* close() with the instances of both units registered, after an earlier close().
C27_Witness ==
  /\ last.op = "DiamondClient.close"
  /\ DOMAIN last.registered = Units
  /\ envs.made = 3
  /\ envs.open = {}

\* C28: while the unit client is open and the listener of the key stays
\* subscribed, the Subscription eventually holds the content the server holds,
\* for good, with no emission of the key left in the queue; the newest queued
\* emission of a key always carries the content the Subscription holds, and the
\* emission that empties the queue delivers that content: the last content
\* delivered is the server's. This holds also when the answer to the initial
\* sync, made before the change, arrives after the answer to the loop's
\* getConfig, made after it.
C28_Held(key) ==
  /\ key \in DOMAIN _subscriptions
  /\ _subscriptions[key].content = serverVal[key]
  /\ QueuedFor(immediates, key) = <<>>

C28_Convergence ==
  /\ [](\A k \in DOMAIN _subscriptions :
          LET q == QueuedFor(immediates, k)
          IN  /\ q # <<>> => q[Len(q)] = _subscriptions[k].content
              /\ (last.op = "emit" /\ last.key = k /\ q = <<>>) =>
                   last.content = _subscriptions[k].content)
  /\ [](ConvKey \in DOMAIN _subscriptions => <>[]C28_Held(ConvKey))

\* The answer to the initial sync made before the change has arrived after the
\* loop had stored the new content: the old content is stored again.
C28_Witness ==
  /\ last.op = "sync"
  /\ last.by = "init"
  /\ serverVal[ConvKey] = "v2"
  /\ \E r \in last.recs :
       /\ r.key = ConvKey
       /\ r.before.content = "v2"
       /\ r.content = FirstContent
  /\ _subscriptions[ConvKey].content = FirstContent

\* C29: _isLongPulling is true exactly while the loop task is active: set on
\* entry, cleared on exit. No state has the client open, a Subscription whose
\* initial sync has completed, the flag true and no loop task; with the client
\* open, a Subscription whose initial sync has completed has a loop task, also
\* when it was subscribed after the loop had exited on an empty set.
C29_SyncedKeys ==
  {k \in DOMAIN _subscriptions : \A i \in DOMAIN inits : inits[i] # k}

C29_GuardNeverStrands ==
  /\ _isLongPulling <=> loop.pc # "off"
  /\ ~(~_isClose /\ C29_SyncedKeys # {} /\ _isLongPulling /\ loop.pc = "off")
  /\ (~_isClose /\ C29_SyncedKeys # {}) => loop.pc # "off"
  /\ (last.op = "sync" /\ last.by = "init" /\ ~_isClose /\ DOMAIN _subscriptions # {}) =>
       /\ _isLongPulling
       /\ loop.pc # "off"

\* The initial sync of a key subscribed after the loop had exited on an empty
\* set has completed and started the loop again: its request failed and
\* getConfig returned the content an earlier sync had stored in the snapshot.
C29_Witness ==
  /\ last.op = "sync"
  /\ last.by = "init"
  /\ ~last.lp
  /\ last.was = LoopOff
  /\ \E r \in last.recs :
       /\ r.had
       /\ r.before.md5 = NULL
       /\ r.ok
  /\ last.errs # {}
  /\ ~_isClose
  /\ _isLongPulling
  /\ loop.pc = "probe"

====
